---- MODULE Spec2Model ----
(***************************************************************************)
(* Model of two leaf commands of the MinIO client:                         *)
(*   mc admin user svcacct add   (src/cmd/admin-user-svcacct-add.go)       *)
(*   mc admin user disable       (src/unnamed/part_000)                    *)
(* One process invocation is one behaviour: the command line is fixed in   *)
(* the initial state, every collaborator call of the handler is one step,  *)
(* and the process ends in pc = "done" (handler returned nil, exit 0) or   *)
(* pc = "exited" (os.Exit through fatalIf or ShowCommandHelpAndExit).      *)
(***************************************************************************)
EXTENDS Integers, Sequences, FiniteSets, TLC

VARIABLES
    cmd,            \* which command's Action runs: "add", "disable" ("render": renderer alone)
    args,           \* ctx.Args(): the positional arguments
    accessKeyFlag,  \* ctx.String("access-key")
    secretKeyFlag,  \* ctx.String("secret-key")
    policyPath,     \* ctx.String("policy")
    policyFile,     \* the file at policyPath: readable?, its bytes, does it parse
    globalJSON,     \* output mode selected once per process
    theme,          \* console colour registry: the tags that have a colour
    pc,             \* position of the handler
    buf,            \* var buf []byte of mainAdminUserSvcAcctAdd
    calls,          \* log of local collaborator calls, in order
    remoteCalls,    \* log of remote operations, in order, with request and result
    creds,          \* credentials returned by AddServiceAccount
    msgs,           \* outcome messages constructed
    stdout,         \* outcome messages rendered
    stderr,         \* diagnostics printed by the fatal-error path
    helpShown,      \* command help printed
    exitCode        \* -1 while running, else the process exit status

vars == <<cmd, args, accessKeyFlag, secretKeyFlag, policyPath, policyFile,
          globalJSON, theme, pc, buf, calls, remoteCalls, creds, msgs,
          stdout, stderr, helpShown, exitCode>>

(***************************************************************************)
(* Bounds of the model.                                                    *)
(***************************************************************************)
MaxArgs == 3

MaxDocLen == 2

ArgStrs == {"myminio", "foobar"}

FlagStrs == {"", "AK1", "SK1"}

CredStrs == {"", "AKGEN", "SKGEN"}

PathStrs == {"", "policy.json"}

Bytes == {123, 125}

RECURSIVE SeqsUpTo(_, _)
SeqsUpTo(S, n) ==
    IF n = 0 THEN {<<>>}
    ELSE LET shorter == SeqsUpTo(S, n - 1)
         IN  shorter \cup {Append(s, x) : s \in shorter, x \in S}

ArgLists == SeqsUpTo(ArgStrs, MaxArgs)

Docs == SeqsUpTo(Bytes, MaxDocLen)

NoFile == [readable |-> FALSE, bytes |-> <<>>, valid |-> FALSE]

Files == {NoFile} \cup [readable : {TRUE}, bytes : Docs, valid : BOOLEAN]

NilBuf == [nil |-> TRUE, bytes |-> <<>>]

NoCreds == [AccessKey |-> "", SecretKey |-> ""]

(***************************************************************************)
(* The outcome message of the service-account commands and its renderers.  *)
(***************************************************************************)
accessFieldMaxLen == 20

\* type svcAcctMessage struct: a value with every field at its zero value
\* except the ones the composite literal names.
svcAcctMessage(op, AccessKey, SecretKey, AccountStatus) ==
    [op            |-> op,
     Status        |-> "",
     AccessKey     |-> AccessKey,
     SecretKey     |-> SecretKey,
     ParentUser    |-> "",
     ImpliedPolicy |-> FALSE,
     Policy        |-> "",
     AccountStatus |-> AccountStatus,
     MemberOf      |-> <<>>]

\* The character U+0060 (grave accent) of the Go string literals, which a
\* string of this notation cannot hold.
BQ == "\\x60"

\* console.Colorize(tag, data): data wrapped in the tag's colour escape
\* sequence when the registry has a colour for the tag, data unchanged
\* otherwise.
Colorize(tag, data) ==
    IF tag \in theme THEN "^[[32m" \o data \o "^[[0m" ELSE data

RECURSIVE Spaces(_)
Spaces(n) == IF n <= 0 THEN "" ELSE " " \o Spaces(n - 1)

\* newPrettyTable("  ", Field{"AccessKey", accessFieldMaxLen}).buildRow(c):
\* one column, formatted %-20.20s: cut to maxLen with a trailing "..." when
\* longer, padded with blanks to maxLen otherwise.
buildRow(colorTheme, maxLen, content) ==
    LET dots  == "..."
        field == IF Len(content) > maxLen
                 THEN SubSeq(content, 1, maxLen - Len(dots)) \o dots
                 ELSE content
    IN  Colorize(colorTheme, field \o Spaces(maxLen - Len(field)))

\* String with the "set" case lost.
StringNoSet(u) ==
    CASE u.op = "ls" -> buildRow("AccessKey", accessFieldMaxLen, u.AccessKey)
      [] u.op = "info" ->
            LET policyField == IF u.ImpliedPolicy THEN "implied" ELSE "embedded"
            IN  Colorize("UserMessage",
                    "AccessKey: " \o u.AccessKey \o "\n" \o
                    "ParentUser: " \o u.ParentUser \o "\n" \o
                    "Status: " \o u.AccountStatus \o "\n" \o
                    "Policy: " \o policyField)
      [] u.op = "rm" ->
            Colorize("UserMessage",
                "Removed service account " \o BQ \o u.AccessKey \o BQ \o " successfully.")
      [] u.op = "disable" ->
            Colorize("UserMessage",
                "Disabled service account " \o BQ \o u.AccessKey \o BQ \o " successfully.")
      [] u.op = "enable" ->
            Colorize("UserMessage",
                "Enabled service account " \o BQ \o u.AccessKey \o BQ \o " successfully.")
      [] u.op = "add" ->
            Colorize("UserMessage",
                "Access Key: " \o u.AccessKey \o "\nSecret Key: " \o u.SecretKey)
      [] OTHER -> ""

\* func (u svcAcctMessage) String() string
String(u) ==
    CASE u.op = "ls" -> buildRow("AccessKey", accessFieldMaxLen, u.AccessKey)
      [] u.op = "info" ->
            LET policyField == IF u.ImpliedPolicy THEN "implied" ELSE "embedded"
            IN  Colorize("UserMessage",
                    "AccessKey: " \o u.AccessKey \o "\n" \o
                    "ParentUser: " \o u.ParentUser \o "\n" \o
                    "Status: " \o u.AccountStatus \o "\n" \o
                    "Policy: " \o policyField)
      [] u.op = "rm" ->
            Colorize("UserMessage",
                "Removed service account " \o BQ \o u.AccessKey \o BQ \o " successfully.")
      [] u.op = "disable" ->
            Colorize("UserMessage",
                "Disabled service account " \o BQ \o u.AccessKey \o BQ \o " successfully.")
      [] u.op = "enable" ->
            Colorize("UserMessage",
                "Enabled service account " \o BQ \o u.AccessKey \o BQ \o " successfully.")
      [] u.op = "add" ->
            Colorize("UserMessage",
                "Access Key: " \o u.AccessKey \o "\nSecret Key: " \o u.SecretKey)
      [] u.op = "set" ->
            Colorize("UserMessage",
                "Edited service account " \o BQ \o u.AccessKey \o BQ \o " successfully.")
      [] OTHER -> ""

\* One member of the marshalled object: a field tagged json:"key" is always
\* written, a field tagged json:"key,omitempty" only when its value is not
\* the zero value of its type ("" / false / empty list).
Member(key, val) == <<[key |-> key, val |-> val]>>

OmitEmpty(key, val, zero) == IF val = zero THEN <<>> ELSE Member(key, val)

\* JSON with the omitempty option missing from the policy field.
JSONPolicyAlways(u) ==
    LET v == [u EXCEPT !.Status = "success"]
    IN  Member("status", v.Status)
        \o OmitEmpty("accessKey", v.AccessKey, "")
        \o OmitEmpty("secretKey", v.SecretKey, "")
        \o OmitEmpty("parentUser", v.ParentUser, "")
        \o OmitEmpty("impliedPolicy", v.ImpliedPolicy, FALSE)
        \o Member("policy", v.Policy)
        \o OmitEmpty("accountStatus", v.AccountStatus, "")
        \o OmitEmpty("memberOf", v.MemberOf, <<>>)

\* func (u svcAcctMessage) JSON() string: the members of the marshalled
\* object in struct order; op is unexported and never written.
JSON(u) ==
    LET v == [u EXCEPT !.Status = "success"]
    IN  Member("status", v.Status)
        \o OmitEmpty("accessKey", v.AccessKey, "")
        \o OmitEmpty("secretKey", v.SecretKey, "")
        \o OmitEmpty("parentUser", v.ParentUser, "")
        \o OmitEmpty("impliedPolicy", v.ImpliedPolicy, FALSE)
        \o OmitEmpty("policy", v.Policy, "")
        \o OmitEmpty("accountStatus", v.AccountStatus, "")
        \o OmitEmpty("memberOf", v.MemberOf, <<>>)

Keys(doc) == {doc[i].key : i \in 1..Len(doc)}

\* userMessage{op: ..., AccessKey: ...} of the user commands.
userMessage(op, AccessKey) ==
    [op |-> op, Status |-> "", AccessKey |-> AccessKey]

\* userMessage.String(), "disable" case.
userMessageString(u) ==
    IF u.op = "disable"
    THEN Colorize("UserMessage",
             "Disabled service account " \o BQ \o u.AccessKey \o BQ \o " successfully.")
    ELSE ""

\* userMessage.JSON()
userMessageJSON(u) ==
    Member("status", "success") \o OmitEmpty("accessKey", u.AccessKey, "")

\* printMsg(msg): the message rendered through the selected output mode.
printMsg(text, doc) ==
    IF globalJSON
    THEN Append(stdout, [mode |-> "json", text |-> "", doc |-> doc])
    ELSE Append(stdout, [mode |-> "human", text |-> text, doc |-> <<>>])

(***************************************************************************)
(* Leaving the handler.                                                    *)
(***************************************************************************)
\* fatalIf(err, msg) with err # nil: one diagnostic, then exit status 1.
\* With err = nil it returns and the handler goes on (Continue).
fatalIf(message) ==
    /\ pc' = "exited"
    /\ exitCode' = 1
    /\ stderr' = Append(stderr, message)
    /\ helpShown' = helpShown

\* cli.ShowCommandHelpAndExit(ctx, "disable", code): the command's help, then
\* exit with the given status.
ShowCommandHelpAndExit(code) ==
    /\ pc' = "exited"
    /\ exitCode' = code
    /\ helpShown' = TRUE
    /\ stderr' = stderr

Continue(next) ==
    /\ pc' = next
    /\ UNCHANGED <<exitCode, stderr, helpShown>>

Inputs == <<cmd, args, accessKeyFlag, secretKeyFlag, policyPath, policyFile, globalJSON>>

(***************************************************************************)
(* mc admin user svcacct add                                               *)
(***************************************************************************)
\* The statement order of the handler with the policy document resolved
\* before the admin client is created.
AddFlowPolicyFirst(at) ==
    CASE at = "start"   -> "policy"
      [] at = "policy"  -> "client"
      [] at = "client"  -> "request"
      [] at = "request" -> "print"
      [] at = "print"   -> "done"

\* The statement order of mainAdminUserSvcAcctAdd: the position the handler
\* goes to when the statement group at position `at` has not ended the process.
AddFlow(at) ==
    CASE at = "start"   -> "client"
      [] at = "client"  -> "policy"
      [] at = "policy"  -> "request"
      [] at = "request" -> "print"
      [] at = "print"   -> "done"

\* The arity check accepting every list of at least two arguments.
checkAdminUserSvcAcctAddSyntaxAtLeast ==
    /\ cmd = "add" /\ pc = "start"
    /\ IF Len(args) < 2
       THEN fatalIf("Incorrect number of arguments for user svcacct add command.")
       ELSE Continue(AddFlow("start"))
    /\ UNCHANGED <<Inputs, theme, buf, calls, remoteCalls, creds, msgs, stdout>>

checkAdminUserSvcAcctAddSyntax ==
    /\ cmd = "add" /\ pc = "start"
    /\ IF Len(args) # 2
       THEN fatalIf("Incorrect number of arguments for user svcacct add command.")
       ELSE Continue(AddFlow("start"))
    /\ UNCHANGED <<Inputs, theme, buf, calls, remoteCalls, creds, msgs, stdout>>

\* client, err := newAdminClient(aliasedURL); fatalIf(err, ...)
AddNewAdminClient ==
    /\ cmd = "add" /\ pc = "client"
    /\ \E ok \in BOOLEAN :
          /\ calls' = Append(calls, [fn |-> "newAdminClient", arg |-> args[1], ok |-> ok])
          /\ IF ok
             THEN Continue(AddFlow("client"))
             ELSE fatalIf("Unable to initialize admin connection.")
    /\ UNCHANGED <<Inputs, theme, buf, remoteCalls, creds, msgs, stdout>>

\* if policyPath != "" { buf, e = ioutil.ReadFile(policyPath); fatalIf(...) }
AddReadFile ==
    /\ cmd = "add" /\ pc = "policy"
    /\ IF policyPath = ""
       THEN /\ Continue(AddFlow("policy"))
            /\ UNCHANGED <<buf, calls>>
       ELSE /\ calls' = Append(calls, [fn |-> "ReadFile", arg |-> policyPath,
                                       ok |-> policyFile.readable])
            /\ IF policyFile.readable
               THEN /\ buf' = [nil |-> FALSE, bytes |-> policyFile.bytes]
                    /\ Continue("parse")
               ELSE /\ buf' = buf
                    /\ fatalIf("Unable to open the policy document.")
    /\ UNCHANGED <<Inputs, theme, remoteCalls, creds, msgs, stdout>>

\* The parse step with its error dropped.
AddParseConfigIgnored ==
    /\ cmd = "add" /\ pc = "parse"
    /\ calls' = Append(calls, [fn |-> "ParseConfig", arg |-> buf.bytes,
                               ok |-> policyFile.valid])
    /\ Continue(AddFlow("policy"))
    /\ UNCHANGED <<Inputs, theme, buf, remoteCalls, creds, msgs, stdout>>

\* _, e = iampolicy.ParseConfig(bytes.NewReader(buf)); fatalIf(...)
AddParseConfig ==
    /\ cmd = "add" /\ pc = "parse"
    /\ calls' = Append(calls, [fn |-> "ParseConfig", arg |-> buf.bytes,
                               ok |-> policyFile.valid])
    /\ IF policyFile.valid
       THEN Continue(AddFlow("policy"))
       ELSE fatalIf("Unable to parse the policy document.")
    /\ UNCHANGED <<Inputs, theme, buf, remoteCalls, creds, msgs, stdout>>

\* The request with the two key flags exchanged.
AddServiceAccountReqSwapped ==
    [Policy     |-> buf,
     AccessKey  |-> secretKeyFlag,
     SecretKey  |-> accessKeyFlag,
     TargetUser |-> args[2]]

\* opts := madmin.AddServiceAccountReq{...}
AddServiceAccountReq ==
    [Policy     |-> buf,
     AccessKey  |-> accessKeyFlag,
     SecretKey  |-> secretKeyFlag,
     TargetUser |-> args[2]]

\* The remote call repeated after a failure.
AddServiceAccountRetried ==
    /\ cmd = "add" /\ pc = "request"
    /\ \E ok \in BOOLEAN, c \in [AccessKey : CredStrs, SecretKey : CredStrs] :
          /\ remoteCalls' = Append(remoteCalls, [fn  |-> "AddServiceAccount",
                                                 req |-> AddServiceAccountReq,
                                                 ok  |-> ok])
          /\ IF ok
             THEN /\ creds' = c
                  /\ Continue(AddFlow("request"))
             ELSE /\ creds' = creds
                  /\ IF Len(remoteCalls) + 1 < 2
                     THEN Continue("request")
                     ELSE fatalIf("Unable to add a new service account")
    /\ UNCHANGED <<Inputs, theme, buf, calls, msgs, stdout>>

\* The remote call with its error dropped.
AddServiceAccountErrIgnored ==
    /\ cmd = "add" /\ pc = "request"
    /\ \E ok \in BOOLEAN, c \in [AccessKey : CredStrs, SecretKey : CredStrs] :
          /\ remoteCalls' = Append(remoteCalls, [fn  |-> "AddServiceAccount",
                                                 req |-> AddServiceAccountReq,
                                                 ok  |-> ok])
          /\ creds' = IF ok THEN c ELSE creds
          /\ Continue(AddFlow("request"))
    /\ UNCHANGED <<Inputs, theme, buf, calls, msgs, stdout>>

\* creds, e := client.AddServiceAccount(globalContext, opts); fatalIf(...)
\* The remote side decides the result and the credentials it returns.
AddServiceAccount ==
    /\ cmd = "add" /\ pc = "request"
    /\ \E ok \in BOOLEAN, c \in [AccessKey : CredStrs, SecretKey : CredStrs] :
          /\ remoteCalls' = Append(remoteCalls, [fn  |-> "AddServiceAccount",
                                                 req |-> AddServiceAccountReq,
                                                 ok  |-> ok])
          /\ IF ok
             THEN /\ creds' = c
                  /\ Continue(AddFlow("request"))
             ELSE /\ creds' = creds
                  /\ fatalIf("Unable to add a new service account")
    /\ UNCHANGED <<Inputs, theme, buf, calls, msgs, stdout>>

\* svcAcctMessage{op: "add", AccessKey: ..., SecretKey: ..., AccountStatus: "enabled"}
addMessage ==
    svcAcctMessage("add", creds.AccessKey, creds.SecretKey, "enabled")

\* printMsg(svcAcctMessage{...}); return nil
AddPrintMsg ==
    /\ cmd = "add" /\ pc = "print"
    /\ msgs' = Append(msgs, addMessage)
    /\ stdout' = printMsg(String(addMessage), JSON(addMessage))
    /\ pc' = AddFlow("print")
    /\ exitCode' = 0
    /\ UNCHANGED <<Inputs, theme, buf, calls, remoteCalls, creds, stderr, helpShown>>

mainAdminUserSvcAcctAdd ==
    \/ checkAdminUserSvcAcctAddSyntax
    \/ AddNewAdminClient
    \/ AddReadFile
    \/ AddParseConfig
    \/ AddServiceAccount
    \/ AddPrintMsg

(***************************************************************************)
(* mc admin user disable                                                   *)
(***************************************************************************)
\* madmin.AccountDisabled
AccountDisabled == "disabled"

checkAdminUserDisableSyntax ==
    /\ cmd = "disable" /\ pc = "start"
    /\ IF Len(args) # 2
       THEN ShowCommandHelpAndExit(1)
       ELSE Continue("client")
    /\ UNCHANGED <<Inputs, theme, buf, calls, remoteCalls, creds, msgs, stdout>>

\* console.SetColor("UserMessage", ...); client, err := newAdminClient(aliasedURL)
DisableNewAdminClient ==
    /\ cmd = "disable" /\ pc = "client"
    /\ theme' = theme \cup {"UserMessage"}
    /\ \E ok \in BOOLEAN :
          /\ calls' = Append(calls, [fn |-> "newAdminClient", arg |-> args[1], ok |-> ok])
          /\ IF ok
             THEN Continue("request")
             ELSE fatalIf("Unable to initialize admin connection.")
    /\ UNCHANGED <<Inputs, buf, remoteCalls, creds, msgs, stdout>>

\* The arguments of client.SetUserStatus(globalContext, args.Get(1), madmin.AccountDisabled)
SetUserStatusReq == [user |-> args[2], status |-> AccountDisabled]

\* e := client.SetUserStatus(...); fatalIf(...)
SetUserStatus ==
    /\ cmd = "disable" /\ pc = "request"
    /\ \E ok \in BOOLEAN :
          /\ remoteCalls' = Append(remoteCalls, [fn  |-> "SetUserStatus",
                                                 req |-> SetUserStatusReq,
                                                 ok  |-> ok])
          /\ IF ok
             THEN Continue("print")
             ELSE fatalIf("Unable to disable user")
    /\ UNCHANGED <<Inputs, theme, buf, calls, creds, msgs, stdout>>

\* The message naming the alias instead of the account.
disableMessageAlias == userMessage("disable", args[1])

\* userMessage{op: "disable", AccessKey: args.Get(1)}
disableMessage == userMessage("disable", args[2])

\* printMsg(userMessage{...}); return nil
DisablePrintMsg ==
    /\ cmd = "disable" /\ pc = "print"
    /\ msgs' = Append(msgs, disableMessage)
    /\ stdout' = printMsg(userMessageString(disableMessage), userMessageJSON(disableMessage))
    /\ pc' = "done"
    /\ exitCode' = 0
    /\ UNCHANGED <<Inputs, theme, buf, calls, remoteCalls, creds, stderr, helpShown>>

mainAdminUserDisable ==
    \/ checkAdminUserDisableSyntax
    \/ DisableNewAdminClient
    \/ SetUserStatus
    \/ DisablePrintMsg

(***************************************************************************)
(* One invocation of either command.                                       *)
(***************************************************************************)
Fresh ==
    /\ pc = "start"
    /\ buf = NilBuf
    /\ calls = <<>>
    /\ remoteCalls = <<>>
    /\ creds = NoCreds
    /\ msgs = <<>>
    /\ stdout = <<>>
    /\ stderr = <<>>
    /\ helpShown = FALSE
    /\ exitCode = -1

Init ==
    /\ cmd \in {"add", "disable"}
    /\ args \in ArgLists
    /\ accessKeyFlag \in (IF cmd = "add" THEN FlagStrs ELSE {""})
    /\ secretKeyFlag \in (IF cmd = "add" THEN FlagStrs ELSE {""})
    /\ policyPath \in (IF cmd = "add" THEN PathStrs ELSE {""})
    /\ policyFile \in (IF policyPath = "" THEN {NoFile} ELSE Files)
    /\ globalJSON \in BOOLEAN
    /\ theme \in SUBSET {"UserMessage"}
    /\ Fresh

Next == mainAdminUserSvcAcctAdd \/ mainAdminUserDisable

Spec == Init /\ [][Next]_vars

(***************************************************************************)
(* The renderers alone, applied to every message of a bounded set.         *)
(***************************************************************************)
LongKey == "ABCDEFGHIJKLMNOPQRSTUVWXYZ"

RenderOps == {"add", "ls", "info", "rm", "disable", "enable", "set",
              "list", "remove", "", "edit"}

RenderMsgs ==
    [op            : RenderOps,
     Status        : {""},
     AccessKey     : {"", "AK1", LongKey},
     SecretKey     : {"", "SK1"},
     ParentUser    : {"", "foobar"},
     ImpliedPolicy : BOOLEAN,
     Policy        : {"", "{}"},
     AccountStatus : {"", "enabled"},
     MemberOf      : {<<>>, <<"admins">>}]

InitRender ==
    /\ cmd = "render"
    /\ args = <<>>
    /\ accessKeyFlag = ""
    /\ secretKeyFlag = ""
    /\ policyPath = ""
    /\ policyFile = NoFile
    /\ globalJSON \in BOOLEAN
    /\ theme \in SUBSET {"UserMessage", "AccessKey"}
    /\ Fresh

\* A message of any operation is constructed.
RenderConstruct ==
    /\ cmd = "render" /\ pc = "start"
    /\ \E u \in RenderMsgs : msgs' = <<u>>
    /\ pc' = "print"
    /\ UNCHANGED <<Inputs, theme, buf, calls, remoteCalls, creds, stdout, stderr,
                   helpShown, exitCode>>

\* printMsg(u)
RenderPrintMsg ==
    /\ cmd = "render" /\ pc = "print"
    /\ stdout' = printMsg(String(msgs[1]), JSON(msgs[1]))
    /\ pc' = "done"
    /\ exitCode' = 0
    /\ UNCHANGED <<Inputs, theme, buf, calls, remoteCalls, creds, msgs, stderr, helpShown>>

NextRender == RenderConstruct \/ RenderPrintMsg

SpecRender == InitRender /\ [][NextRender]_vars

(***************************************************************************)
(* Properties.                                                             *)
(***************************************************************************)
Terminated == pc \in {"done", "exited"}

LocalFailure(names) ==
    \E i \in 1..Len(calls) : calls[i].fn \in names /\ ~calls[i].ok

Called(name) == \E i \in 1..Len(calls) : calls[i].fn = name

PolicyCalls == {"ReadFile", "ParseConfig"}

\* C1: with an argument count other than 2, either command ends before any
\* collaborator is invoked: no admin client is created, no policy file is
\* read or parsed, no remote operation is called, no outcome message is
\* constructed or printed.
C1_ArityViolationShortCircuits ==
    (cmd \in {"add", "disable"} /\ Len(args) # 2) =>
        /\ pc \in {"start", "exited"}
        /\ calls = <<>>
        /\ remoteCalls = <<>>
        /\ msgs = <<>>
        /\ stdout = <<>>

C1_Witness ==
    /\ cmd = "add" /\ Len(args) = 3
    /\ pc = "exited" /\ exitCode = 1

\* C2: on the add path with a policy path given, an unreadable file or a
\* document that does not parse ends the process with no remote call made
\* and no outcome message rendered.
C2_PolicyFailureBeforeRemote ==
    /\ (cmd = "add" /\ policyPath # "" /\ (~policyFile.readable \/ ~policyFile.valid)) =>
          /\ remoteCalls = <<>>
          /\ stdout = <<>>
          /\ pc # "done"
    /\ (cmd = "add" /\ LocalFailure(PolicyCalls)) =>
          /\ pc = "exited" /\ exitCode > 0
          /\ Len(remoteCalls) = 0
          /\ stdout = <<>>

C2_Witness ==
    /\ cmd = "add" /\ policyPath # "" /\ policyFile.readable /\ ~policyFile.valid
    /\ pc = "exited"
    /\ Called("ParseConfig")
    /\ Len(remoteCalls) = 0

\* C3: every failure (usage, policy read or parse, connection, remote
\* operation) ends the invocation with a non-zero exit status and nothing
\* rendered; a message is rendered, and the handler returns with status 0,
\* only after the one remote operation has returned success.
FailureSeen ==
    \/ pc # "start" /\ Len(args) # 2
    \/ LocalFailure({"newAdminClient", "ReadFile", "ParseConfig"})
    \/ \E i \in 1..Len(remoteCalls) : ~remoteCalls[i].ok

C3_FailuresTerminal ==
    cmd \in {"add", "disable"} =>
        /\ FailureSeen => /\ pc = "exited" /\ exitCode > 0
                          /\ stdout = <<>> /\ msgs = <<>>
        /\ (stderr # <<>> \/ helpShown) => FailureSeen
        /\ stdout # <<>> => /\ Len(stdout) = 1
                            /\ Len(remoteCalls) = 1 /\ remoteCalls[1].ok
                            /\ pc = "done" /\ exitCode = 0
        /\ pc = "done" => stdout # <<>> /\ exitCode = 0
        /\ exitCode = 0 => pc = "done"

C3_Witness ==
    /\ pc = "exited" /\ exitCode = 1
    /\ Len(remoteCalls) = 1 /\ ~remoteCalls[1].ok
    /\ stdout = <<>>

AddJSONDocs ==
    {stdout[i].doc : i \in {j \in 1..Len(stdout) : cmd = "add" /\ stdout[j].mode = "json"}}

MemberVal(doc, key) ==
    LET i == CHOOSE j \in 1..Len(doc) : doc[j].key = key IN doc[i].val

\* C4 (as amended): the JSON document of the add path holds status and
\* accountStatus ("enabled") always, accessKey and secretKey exactly when
\* the returned credential is not empty, and never parentUser, policy,
\* impliedPolicy or memberOf.
C4_AddJSONKeys ==
    \A doc \in AddJSONDocs :
        /\ Keys(doc) \subseteq {"status", "accessKey", "secretKey", "accountStatus"}
        /\ {"status", "accountStatus"} \subseteq Keys(doc)
        /\ MemberVal(doc, "status") = "success"
        /\ MemberVal(doc, "accountStatus") = "enabled"
        /\ ("accessKey" \in Keys(doc)) <=> (creds.AccessKey # "")
        /\ ("secretKey" \in Keys(doc)) <=> (creds.SecretKey # "")
        /\ "accessKey" \in Keys(doc) => MemberVal(doc, "accessKey") = creds.AccessKey
        /\ "secretKey" \in Keys(doc) => MemberVal(doc, "secretKey") = creds.SecretKey

C4_Witness ==
    /\ cmd = "add" /\ pc = "done" /\ globalJSON
    /\ AddJSONDocs # {}
    /\ creds.AccessKey # "" /\ creds.SecretKey # ""

\* C4 (as claimed): the message of the add path leaves parentUser,
\* accountStatus, policy, impliedPolicy and memberOf unpopulated and its JSON
\* document has no key besides status, accessKey and secretKey.
C4_Original ==
    /\ cmd = "add" =>
          \A i \in 1..Len(msgs) :
              /\ msgs[i].ParentUser = "" /\ msgs[i].AccountStatus = ""
              /\ msgs[i].Policy = "" /\ msgs[i].ImpliedPolicy = FALSE
              /\ msgs[i].MemberOf = <<>>
    /\ \A doc \in AddJSONDocs :
          Keys(doc) \subseteq {"status", "accessKey", "secretKey"}

HumanTexts ==
    {stdout[i].text : i \in {j \in 1..Len(stdout) : stdout[j].mode = "human"}}

CodeOps == {"add", "ls", "info", "rm", "disable", "enable", "set"}

ClaimedOps == {"add", "list", "info", "remove", "disable", "enable", "set"}

C6_DisableUsesSecondArgument ==
    cmd = "disable" =>
        /\ \A i \in 1..Len(remoteCalls) :
              /\ remoteCalls[i].fn = "SetUserStatus"
              /\ remoteCalls[i].req.user = args[2]
              /\ remoteCalls[i].req.status = "disabled"
        /\ \A i \in 1..Len(msgs) :
              /\ msgs[i].op = "disable"
              /\ msgs[i].AccessKey = args[2]
        /\ Len(stdout) = Len(msgs)
        /\ pc = "done" => /\ Len(msgs) = 1
                          /\ Len(remoteCalls) = 1 /\ remoteCalls[1].ok

C6_Witness ==
    /\ cmd = "disable" /\ pc = "done"
    /\ args[1] # args[2]
    /\ Len(msgs) = 1

\* C7: the request of the remote mint operation is built from the inputs
\* unaltered: TargetUser is the second argument, AccessKey and SecretKey the
\* flag values, Policy nil without a policy path and the bytes of the file
\* otherwise (a zero-length file included).
C7_RequestFromInputs ==
    cmd = "add" =>
        \A i \in 1..Len(remoteCalls) :
            /\ remoteCalls[i].fn = "AddServiceAccount"
            /\ remoteCalls[i].req.TargetUser = args[2]
            /\ remoteCalls[i].req.AccessKey = accessKeyFlag
            /\ remoteCalls[i].req.SecretKey = secretKeyFlag
            /\ policyPath = "" => remoteCalls[i].req.Policy = NilBuf
            /\ policyPath # "" =>
                  /\ ~remoteCalls[i].req.Policy.nil
                  /\ remoteCalls[i].req.Policy.bytes = policyFile.bytes

C7_Witness ==
    /\ cmd = "add" /\ Len(remoteCalls) = 1
    /\ policyPath # "" /\ policyFile.bytes = <<>>
    /\ accessKeyFlag = "AK1" /\ secretKeyFlag = ""

\* C8: on an argument-count mismatch each of the two commands prints the
\* command's help and ends the process with a non-zero exit status.
C8_UsageErrorPrintsHelp ==
    (cmd \in {"add", "disable"} /\ pc = "exited" /\ Len(args) # 2) =>
        /\ helpShown
        /\ exitCode > 0

\* C9: a run invokes at most one remote operation: exactly one when the
\* arguments, the optional inputs and the connection are good, none
\* otherwise; a failed operation is not retried and none follows a success.
C9_AtMostOneRemoteCall ==
    cmd \in {"add", "disable"} =>
        /\ Len(remoteCalls) <= 1
        /\ pc \in {"print", "done"} => Len(remoteCalls) = 1
        /\ (Terminated /\ Len(args) = 2 /\ ~LocalFailure({"newAdminClient"} \cup PolicyCalls))
              => Len(remoteCalls) = 1
        /\ (Len(args) # 2 \/ LocalFailure({"newAdminClient"} \cup PolicyCalls))
              => Len(remoteCalls) = 0

C9_Witness ==
    /\ cmd = "add" /\ pc = "exited"
    /\ Len(remoteCalls) = 1 /\ ~remoteCalls[1].ok
    /\ stderr = <<"Unable to add a new service account">>

\* C10 (as amended): the add path validates the arguments, then creates the
\* admin client, then reads and parses the optional policy document, then
\* calls the remote operation, then renders: the policy is read only after
\* the client was created, so a policy failure leaves one client created and
\* no remote operation called.
C10_ClientBeforePolicy ==
    cmd = "add" =>
        /\ \A i \in 1..Len(calls) :
              calls[i].fn \in PolicyCalls =>
                  \E j \in 1..(i - 1) : calls[j].fn = "newAdminClient" /\ calls[j].ok
        /\ \A i \in 1..Len(calls) :
              calls[i].fn = "ParseConfig" =>
                  i > 1 /\ calls[i - 1].fn = "ReadFile" /\ calls[i - 1].ok
        /\ calls # <<>> => Len(args) = 2 /\ calls[1].fn = "newAdminClient"
        /\ remoteCalls # <<>> =>
              /\ \A i \in 1..Len(calls) : calls[i].ok
              /\ policyPath # "" => Called("ParseConfig")
        /\ pc \in {"request", "print", "done"} =>
              (policyPath # "" <=> Called("ParseConfig"))
        /\ stdout # <<>> => remoteCalls # <<>>
        /\ LocalFailure(PolicyCalls) => remoteCalls = <<>>

C10_Witness ==
    /\ cmd = "add" /\ pc = "exited"
    /\ Len(calls) = 2
    /\ calls[1].fn = "newAdminClient" /\ calls[1].ok
    /\ calls[2].fn = "ReadFile" /\ ~calls[2].ok

\* C10 (as claimed): a policy read or parse failure occurs with no
\* connection having been opened.
C10_Original ==
    (cmd = "add" /\ LocalFailure(PolicyCalls)) => ~Called("newAdminClient")

====
